---- MODULE Spec2Model ----
(***************************************************************************)
(* A model of the AuthProxyWorkload reconciler                             *)
(* (internal/controller/authproxyworkload_controller.go).                  *)
(*                                                                         *)
(* Six specifications share the module:                                    *)
(*   Spec         the reconcile loop for one resource key, one store round *)
(*                trip per step, interleaved with the other writers of the *)
(*                store (users, other controllers) and with the clock;     *)
(*   SpecCond     replaceCondition applied to bounded condition lists;     *)
(*   SpecStatus   replaceStatus applied to bounded workload-status lists;  *)
(*   SpecList     listWorkloads applied to bounded selectors and clusters; *)
(*   SpecTracker  recentlyDeletedCache under concurrent set and get;       *)
(*   SpecConverge the reconcile loop under its dispatcher, with fairness.  *)
(***************************************************************************)
EXTENDS Integers, Sequences, FiniteSets, TLC

VARIABLES
    \* ---- Spec: the store, the cluster and the clock
    stored,       \* the AuthProxyWorkload held by the API server for the key
    workloads,    \* the target workloads that exist in the cluster
    now,          \* the reading time.Now() returns
    \* ---- Spec: the reconciler
    values,       \* recentlyDeletedCache.values
    pc,           \* where the invocation of Reconcile stands
    fetched,      \* the object r.Get returned to this invocation
    resource,     \* the invocation's working copy (Reconcile's `resource`)
    orig,         \* doCreateUpdate's `orig` (resource.DeepCopy())
    fresh,        \* the working copy's resourceVersion still equals the stored one
    allWorkloads, \* what updateWorkloadStatus returned
    calls,        \* the store calls this invocation has issued, in order
    result,       \* what Reconcile returned: (ctrl.Result, error)
    \* ---- SpecCond: replaceCondition
    cIn, cNew, cT1, cOnce, cT2, cTwice, cPhase,
    \* ---- SpecStatus: replaceStatus
    sIn, sNew, sOut, sPhase,
    \* ---- SpecList: listWorkloads
    lSel,         \* the workloadSelector argument
    lNs,          \* the ns argument
    lFault,       \* the error the store answers the lookup with
    lExisting,    \* the workloads of the cluster
    lOut,         \* what listWorkloads returned
    lPhase,
    \* ---- SpecTracker: recentlyDeletedCache
    lock,         \* c.lock: the writer holding it and the readers holding it
    procs,        \* each goroutine's position in set or get, and its arguments
    completed,    \* ghost: per key, the value of the latest completed set
    \* ---- SpecConverge: the dispatcher
    queued,       \* the key is in the work queue
    faultsLeft    \* how many more store calls may fail

rvars == <<stored, workloads, now, values, pc, fetched, resource, orig, fresh,
           allWorkloads, calls, result>>
cvars == <<cIn, cNew, cT1, cOnce, cT2, cTwice, cPhase>>
svars == <<sIn, sNew, sOut, sPhase>>
lvars == <<lSel, lNs, lFault, lExisting, lOut, lPhase>>
tvars == <<lock, procs, completed>>
dvars == <<queued, faultsLeft>>
vars  == <<rvars, cvars, svars, lvars, tvars, dvars>>

(***************************************************************************)
(* Bounds of the model.                                                    *)
(***************************************************************************)
\* clock readings are 1..MaxTime; 0 is the zero time.Time
MaxTime == 2
\* metadata.generation ranges over 1..MaxGen
MaxGen == 2
\* the longest workload-status list SpecStatus starts from
MaxStatuses == 2
\* how many store calls may fail in a behaviour of SpecConverge
MaxFaults == 2

(***************************************************************************)
(* Helpers over sequences.                                                 *)
(***************************************************************************)
Range(s) == {s[i] : i \in 1..Len(s)}

Min(S) == CHOOSE x \in S : \A y \in S : x <= y

\* the sequences over S of length at most n
SeqsUpTo(S, n) == UNION {[1..k -> S] : k \in 0..n}

(***************************************************************************)
(* metav1.Condition and the condition list.                                *)
(***************************************************************************)
ZeroTime == 0

IsZero(t) == t = ZeroTime

ConditionUpToDate == "UpToDate"
ConditionWorkloadUpToDate == "WorkloadUpToDate"
ReasonNoWorkloadsFound == "NoWorkloadsFound"
ReasonFinishedReconcile == "FinishedReconcile"
ReasonUpToDate == "UpToDate"

Condition(type, status, gen, reason, message) ==
    [type |-> type, status |-> status, observedGeneration |-> gen,
     reason |-> reason, message |-> message, lastTransitionTime |-> ZeroTime]

\* findCondition: the first condition of the type, or none
findCondition(conds, name) ==
    LET idx == {i \in 1..Len(conds) : conds[i].type = name}
    IN  IF idx = {} THEN <<>> ELSE <<conds[Min(idx)]>>

\* a replaceCondition that restamps the time on every replacement
replaceConditionAlwaysStamps(conds, newC, t) ==
    LET idx == {i \in 1..Len(conds) : conds[i].type = newC.type}
    IN  IF idx = {}
        THEN Append(conds, [newC EXCEPT !.lastTransitionTime = t])
        ELSE [conds EXCEPT ![Min(idx)] = [newC EXCEPT !.lastTransitionTime = t]]

\* a replaceCondition that keeps the prior time whenever the status is the same,
\* a zero time included
replaceConditionKeepsZero(conds, newC, t) ==
    LET idx == {i \in 1..Len(conds) : conds[i].type = newC.type}
    IN  IF idx = {}
        THEN Append(conds, [newC EXCEPT !.lastTransitionTime = t])
        ELSE LET i == Min(idx)
             IN  [conds EXCEPT ![i] =
                    [newC EXCEPT !.lastTransitionTime =
                        IF conds[i].status = newC.status
                        THEN conds[i].lastTransitionTime
                        ELSE t]]

\* replaceCondition(conds, newC), with t the reading of time.Now(): the first
\* condition of newC's type is replaced by newC, which keeps that condition's
\* time when the status is the same and the time is not zero and is stamped t
\* otherwise; with no condition of the type, newC is stamped t and appended.
replaceCondition(conds, newC, t) ==
    LET idx == {i \in 1..Len(conds) : conds[i].type = newC.type}
    IN  IF idx = {}
        THEN Append(conds, [newC EXCEPT !.lastTransitionTime = t])
        ELSE LET i == Min(idx)
             IN  [conds EXCEPT ![i] =
                    [newC EXCEPT !.lastTransitionTime =
                        IF conds[i].status = newC.status
                           /\ ~IsZero(conds[i].lastTransitionTime)
                        THEN conds[i].lastTransitionTime
                        ELSE t]]

(***************************************************************************)
(* cloudsqlapi.WorkloadStatus and the workload-status list.                *)
(***************************************************************************)
SameWorkload(s, u) ==
    /\ s.name = u.name
    /\ s.namespace = u.namespace
    /\ s.kind = u.kind
    /\ s.version = u.version

\* a replaceStatus that appends without looking for the entry
replaceStatusAlwaysAppends(statuses, updatedStatus) ==
    Append(statuses, updatedStatus)

\* replaceStatus: every entry of updatedStatus's name, namespace, kind and
\* version is replaced by it; with no such entry it is appended.
replaceStatus(statuses, updatedStatus) ==
    LET replaced == [i \in 1..Len(statuses) |->
                        IF SameWorkload(statuses[i], updatedStatus)
                        THEN updatedStatus ELSE statuses[i]]
        updated  == \E i \in 1..Len(statuses) :
                        SameWorkload(statuses[i], updatedStatus)
    IN  IF ~updated THEN Append(replaced, updatedStatus) ELSE replaced

\* newStatus: a WorkloadStatus with the workload's identifying fields
newStatus(wl) ==
    [kind |-> wl.kind, version |-> wl.version, namespace |-> wl.namespace,
     name |-> wl.name, conditions |-> <<>>]

(***************************************************************************)
(* ctrl.Result, errors, and the store calls an invocation issues.          *)
(***************************************************************************)
noRequeue        == [Requeue |-> FALSE, RequeueAfter |-> 0]
requeueNow       == [Requeue |-> TRUE,  RequeueAfter |-> 0]
requeueWithDelay == [Requeue |-> TRUE,  RequeueAfter |-> 30]

Nil == "nil"
\* errors the store returns
ErrNotFound  == "NotFound"
ErrConflict  == "Conflict"
ErrTransient == "Transient"
\* errors of resolving the selector
ErrUnknownKind == "UnknownKind"
ErrBadSelector == "BadSelector"

\* one store call of the log: the method, the error it returned and, for a
\* write, the object sent (Read, defined with the resource, otherwise)
Call(op, err, sent) == [op |-> op, err |-> err, sent |-> sent]

\* the mutating methods of the client
WriteOps == {"Update", "StatusPatch"}

(***************************************************************************)
(* recentlyDeletedCache: a map from the resource key to a boolean, nil     *)
(* (here the empty function) until the first set.                          *)
(***************************************************************************)
set(vals, k, deleted) == (k :> deleted) @@ vals

\* a get that takes a key never set as deleted
getDefaultsTrue(vals, k) == IF k \in DOMAIN vals THEN vals[k] ELSE TRUE

get(vals, k) == IF k \in DOMAIN vals THEN vals[k] ELSE FALSE

(***************************************************************************)
(* The AuthProxyWorkload resource and the workloads of the cluster.        *)
(***************************************************************************)
finalizerName  == "cloudsql.cloud.google.com/AuthProxyWorkload-finalizer"
\* a finalizer some other controller owns
otherFinalizer == "example.com/other-finalizer"

\* req.NamespacedName
ReqKey == [namespace |-> "default", name |-> "apw"]

\* the kinds workload.WorkloadForKind and WorkloadListForKind know, with the
\* group/version each is served at
KnownKinds == {"Deployment"}

KindVersion(kind) == "apps/v1"

Workload(ns, name) ==
    [kind |-> "Deployment", version |-> KindVersion("Deployment"),
     namespace |-> ns, name |-> name, labelled |-> TRUE]

\* the workloads that may exist, in the order the store lists them
WorkloadUniverse ==
    << Workload("default", "w1"), Workload("default", "w2") >>

\* spec.workloadSelector: kind, name, namespace and the label selector, which
\* either parses or does not
Selector(kind, name, ns, sel) ==
    [kind |-> kind, name |-> name, namespace |-> ns, selector |-> sel]

Selectors ==
    { Selector("Deployment", "", "", "valid"),
      Selector("Deployment", "", "", "malformed"),
      Selector("Bogus", "", "", "valid"),
      Selector("Deployment", "w1", "", "malformed"),
      Selector("Deployment", "w1", "other", "valid"),
      Selector("Bogus", "w1", "", "valid") }

NoSelector == Selector("", "", "", "")

\* no object: what the store holds once the resource is gone, and the zero
\* value of a working copy
NoResource ==
    [exists |-> FALSE, deletionTimestamp |-> FALSE, finalizers |-> {},
     generation |-> 0, spec |-> NoSelector, conditions |-> <<>>,
     workloadStatus |-> <<>>]

\* what a read sends
Read == NoResource

NewResource(sel, fins) ==
    [exists |-> TRUE, deletionTimestamp |-> FALSE, finalizers |-> fins,
     generation |-> 1, spec |-> sel, conditions |-> <<>>,
     workloadStatus |-> <<>>]

ContainsFinalizer(res, f) == f \in res.finalizers

AddFinalizer(res, f) == [res EXCEPT !.finalizers = @ \cup {f}]

\* a RemoveFinalizer that leaves the finalizer in place
RemoveFinalizerKeeps(res, f) == res

RemoveFinalizer(res, f) == [res EXCEPT !.finalizers = @ \ {f}]

\* the API server removes an object whose deletion marker is set once its last
\* finalizer is gone
Collected(res) ==
    IF res.exists /\ res.deletionTimestamp /\ res.finalizers = {}
    THEN NoResource ELSE res

(***************************************************************************)
(* Resolving the selector to workloads.  `existing` is the set of          *)
(* workloads in the cluster and `fault` the error the store answers the    *)
(* one Get or List with (Nil: it answers).  Each operator returns the      *)
(* list, the error and the store calls it issued.  fmt.Errorf's wrapping   *)
(* of an error keeps it non-nil and is not modelled further.               *)
(***************************************************************************)
Listed(list, err, issued) == [list |-> list, err |-> err, calls |-> issued]

\* a read of workloads: a Get of client.ObjectKey{ns, name}, or a List in ns
\* (no name)
Lookup(op, err, ns, name) ==
    [op |-> op, err |-> err, sent |-> Read,
     key |-> [namespace |-> ns, name |-> name]]

\* loadByName: the kind's constructor, then one Get of the key; the store's
\* answer is `fault`, or not-found when no such workload exists; not-found is
\* the empty list and no error
loadByName(workloadSelector, ns, fault, existing) ==
    LET name  == workloadSelector.name
        found == SelectSeq(WorkloadUniverse,
                    LAMBDA w : /\ w \in existing
                               /\ w.kind = workloadSelector.kind
                               /\ w.namespace = ns
                               /\ w.name = name)
        err   == IF fault # Nil THEN fault
                 ELSE IF found = <<>> THEN ErrNotFound ELSE Nil
    IN  IF workloadSelector.kind \notin KnownKinds
        THEN Listed(<<>>, ErrUnknownKind, <<>>)
        ELSE IF err = ErrNotFound
        THEN Listed(<<>>, Nil, <<Lookup("GetWorkload", ErrNotFound, ns, name)>>)
        ELSE IF err # Nil
        THEN Listed(<<>>, err, <<Lookup("GetWorkload", err, ns, name)>>)
        ELSE Listed(found, Nil, <<Lookup("GetWorkload", Nil, ns, name)>>)

loadByLabelSelector(workloadSelector, ns, fault, existing) ==
    \* kinds are written without a group, so schema.ParseKindArg leaves them
    LET kind == workloadSelector.kind
        items == SelectSeq(WorkloadUniverse,
                    LAMBDA w : /\ w \in existing
                               /\ w.kind = kind
                               /\ w.namespace = ns
                               /\ w.labelled)
    IN  IF workloadSelector.selector = "malformed"
        THEN Listed(<<>>, ErrBadSelector, <<>>)
        ELSE IF kind \notin KnownKinds
        THEN Listed(<<>>, ErrUnknownKind, <<>>)
        ELSE IF fault # Nil
        THEN Listed(<<>>, fault, <<Lookup("List", fault, ns, "")>>)
        ELSE Listed(items, Nil, <<Lookup("List", Nil, ns, "")>>)

\* a listWorkloads that goes by the label selector whenever there is one
listWorkloadsLabelFirst(workloadSelector, ns, fault, existing) ==
    LET ns2 == IF workloadSelector.namespace # ""
               THEN workloadSelector.namespace ELSE ns
    IN  IF workloadSelector.name # "" /\ workloadSelector.selector = ""
        THEN loadByName(workloadSelector, ns2, fault, existing)
        ELSE loadByLabelSelector(workloadSelector, ns2, fault, existing)

listWorkloads(workloadSelector, ns, fault, existing) ==
    LET ns2 == IF workloadSelector.namespace # ""
               THEN workloadSelector.namespace ELSE ns
    IN  IF workloadSelector.name # ""
        THEN loadByName(workloadSelector, ns2, fault, existing)
        ELSE loadByLabelSelector(workloadSelector, ns2, fault, existing)

\* the loop of updateWorkloadStatus over matching[i..]: each workload gets a new
\* status entry whose one condition is WorkloadUpToDate=True, put into statuses
RECURSIVE markUpToDate(_, _, _, _, _)
markUpToDate(statuses, matching, i, gen, t) ==
    IF i > Len(matching) THEN statuses
    ELSE LET s0 == newStatus(matching[i])
             s  == [s0 EXCEPT !.conditions =
                      replaceCondition(s0.conditions,
                          Condition(ConditionWorkloadUpToDate, "True", gen,
                                    ReasonUpToDate,
                                    <<"No update needed for this workload">>),
                          t)]
         IN  markUpToDate(replaceStatus(statuses, s), matching, i + 1, gen, t)

\* an updateWorkloadStatus that builds the list anew from the matching workloads
updateWorkloadStatusRebuilds(res, t, fault, existing) ==
    LET l == listWorkloads(res.spec, ReqKey.namespace, fault, existing)
    IN  IF l.err # Nil
        THEN [matching |-> <<>>, err |-> l.err, resource |-> res, calls |-> l.calls]
        ELSE [matching |-> l.list, err |-> Nil,
              resource |-> [res EXCEPT !.workloadStatus =
                              markUpToDate(<<>>, l.list, 1, res.generation, t)],
              calls |-> l.calls]

\* updateWorkloadStatus: the matching workloads, the error, the working copy
\* with its workloadStatus updated (untouched on an error), and the calls issued
updateWorkloadStatus(res, t, fault, existing) ==
    LET l == listWorkloads(res.spec, ReqKey.namespace, fault, existing)
    IN  IF l.err # Nil
        THEN [matching |-> <<>>, err |-> l.err, resource |-> res, calls |-> l.calls]
        ELSE [matching |-> l.list, err |-> Nil,
              resource |-> [res EXCEPT !.workloadStatus =
                              markUpToDate(@, l.list, 1, res.generation, t)],
              calls |-> l.calls]

(***************************************************************************)
(* fmt.Sprintf("%d", n): the decimal digits of n.                          *)
(***************************************************************************)
Digit(d) == CASE d = 0 -> "0" [] d = 1 -> "1" [] d = 2 -> "2" [] d = 3 -> "3"
              [] d = 4 -> "4" [] d = 5 -> "5" [] d = 6 -> "6" [] d = 7 -> "7"
              [] d = 8 -> "8" [] d = 9 -> "9"

RECURSIVE Itoa(_)
Itoa(n) == IF n < 10 THEN <<Digit(n)>>
           ELSE Itoa(n \div 10) \o <<Digit(n % 10)>>

\* a reason that does not tell the empty list apart
reasonAlwaysFinished(n) == ReasonFinishedReconcile

\* doCreateUpdate's reason and message for n matching workloads; a message is
\* the sequence of its pieces
reasonFor(n) ==
    IF n = 0 THEN ReasonNoWorkloadsFound ELSE ReasonFinishedReconcile

messageFor(n) ==
    IF n = 0 THEN <<"No workload updates needed">>
    ELSE <<"Reconciled ">> \o Itoa(n) \o <<" matching workloads complete">>

(***************************************************************************)
(* The store's answers to the reconciler's writes.  `fault` is the error   *)
(* the store fails the call with (Nil: by its own rules).  Each returns    *)
(* the error, the object the store holds afterwards and the response the   *)
(* client decodes into the working copy.                                   *)
(***************************************************************************)
Written(err, st, response) == [err |-> err, stored |-> st, response |-> response]

\* client.Update: the whole object, conditional on the version read; the
\* status subresource keeps the stored status
storeUpdate(st, res, isFresh, fault) ==
    LET err == IF fault # Nil THEN fault
               ELSE IF ~st.exists THEN ErrNotFound
               ELSE IF ~isFresh THEN ErrConflict
               ELSE Nil
        new == [st EXCEPT !.finalizers = res.finalizers]
    IN  IF err # Nil THEN Written(err, st, res)
        ELSE Written(Nil, Collected(new), new)

\* client.Status().Patch(res, client.MergeFrom(og)): a JSON merge patch of the
\* status fields that differ between og and res, applied to whatever version
\* the store holds; a list that differs is sent whole
storeStatusPatch(st, res, og, fault) ==
    LET err == IF fault # Nil THEN fault
               ELSE IF ~st.exists THEN ErrNotFound
               ELSE Nil
        new == [st EXCEPT
                  !.conditions = IF res.conditions # og.conditions
                                 THEN res.conditions ELSE @,
                  !.workloadStatus = IF res.workloadStatus # og.workloadStatus
                                     THEN res.workloadStatus ELSE @]
    IN  IF err # Nil THEN Written(err, st, res)
        ELSE Written(Nil, new, new)

(***************************************************************************)
(* What each branch returns and where it goes next.                        *)
(***************************************************************************)
Ret(res, err) == [res |-> res, err |-> err]

NoResult == Ret(noRequeue, Nil)

\* Reconcile, r.Get failed: quiet when the key was recently deleted
getFailedResult(deleted, err) ==
    IF deleted THEN Ret(noRequeue, Nil) ELSE Ret(requeueWithDelay, err)

\* a test of the deletion marker that also asks for this controller's finalizer
isDeletedNeedsFinalizer(res) ==
    res.deletionTimestamp /\ ContainsFinalizer(res, finalizerName)

\* Reconcile: !resource.ObjectMeta.DeletionTimestamp.IsZero()
isDeleted(res) == res.deletionTimestamp

\* doDelete, updateWorkloadStatus failed
deleteListFailedResult(err) == Ret(requeueNow, err)

\* doDelete, after r.Update
deleteUpdateResult(err) == Ret(noRequeue, err)

\* a doCreateUpdate that requeues at once when the workloads cannot be listed
createListFailedRequeuesNow(err) == Ret(requeueNow, err)

\* doCreateUpdate, updateWorkloadStatus failed (state 1.2)
createListFailedResult(err) == Ret(requeueWithDelay, err)

\* an applyFinalizer that asks for no requeue
applyFinalizerNoRequeue(err) == Ret(noRequeue, err)

\* applyFinalizer, after r.Update: requeueNow with or without the error
applyFinalizerResult(err) == Ret(requeueNow, err)

\* an applyFinalizer after which doCreateUpdate goes on to the workloads
applyFinalizerFallsThrough(err) ==
    IF err = Nil THEN "updateStatus" ELSE "done"

\* applyFinalizer returns to Reconcile's caller
applyFinalizerNext(err) == "done"

\* a reconcileResult that drops the error of the patch or of the Get
reconcileResultDropsError(err) == Ret(noRequeue, Nil)

\* reconcileResult, after the patch and the Get that follows it
reconcileResultResult(err) == Ret(noRequeue, err)

(***************************************************************************)
(* Spec: the reconcile loop.                                               *)
(*                                                                         *)
(* pc is "idle" between invocations and "done" at the return of Reconcile; *)
(* in between it names the store round trip the invocation makes next.     *)
(* The dispatcher runs one invocation per key at a time.  The other        *)
(* writers of the resource act between invocations and right before the    *)
(* invocation's write, which is where a change of theirs can meet it; the  *)
(* workloads and the clock, which an invocation reads once, change between *)
(* invocations.                                                            *)
(***************************************************************************)
\* errors the store may fail a call with, Nil for none
StoreFaults == {Nil, ErrTransient}
\* a Get of the resource may also miss an object the cache has not seen yet
GetFaults   == {Nil, ErrNotFound, ErrTransient}

OthersIdle == UNCHANGED <<cvars, svars, lvars, tvars, dvars>>

\* the variables of SpecList, SpecTracker and SpecConverge, at rest
ListOff ==
    /\ lSel = NoSelector /\ lNs = "" /\ lFault = Nil /\ lExisting = {}
    /\ lOut = Listed(<<>>, Nil, <<>>) /\ lPhase = "off"

TrackerOff ==
    /\ lock = [writer |-> "none", readers |-> {}]
    /\ procs = <<>> /\ completed = <<>>

DispatcherOff == queued = FALSE /\ faultsLeft = 0

InitOff == ListOff /\ TrackerOff /\ DispatcherOff

CondOff ==
    /\ cIn = <<>> /\ cNew = <<>> /\ cT1 = 0 /\ cOnce = <<>>
    /\ cT2 = 0 /\ cTwice = <<>> /\ cPhase = "off"

StatusOff == sIn = <<>> /\ sNew = <<>> /\ sOut = <<>> /\ sPhase = "off"

InitIdle == CondOff /\ StatusOff /\ InitOff

LocalsReset ==
    /\ fetched' = NoResource
    /\ resource' = NoResource
    /\ orig' = NoResource
    /\ fresh' = FALSE
    /\ allWorkloads' = <<>>
    /\ calls' = <<>>
    /\ result' = NoResult

Init ==
    /\ stored = NoResource
    /\ workloads = {}
    /\ now = 1
    /\ values = <<>>
    /\ pc = "idle"
    /\ fetched = NoResource
    /\ resource = NoResource
    /\ orig = NoResource
    /\ fresh = FALSE
    /\ allWorkloads = <<>>
    /\ calls = <<>>
    /\ result = NoResult
    /\ InitIdle

\* the handler returns: pc becomes "done" with what it returns
Finish(r) ==
    /\ pc' = "done"
    /\ result' = r
    /\ fresh' = FALSE

\* Reconcile up to its first store call after r.Get: the Get, the deletion
\* tracker, the choice of doDelete or doCreateUpdate, and doCreateUpdate's copy
\* and test of the finalizer
ReconcileWith(faults) ==
    /\ pc = "idle"
    /\ \E fault \in faults :
        LET err == IF ~stored.exists THEN ErrNotFound ELSE fault
        IN  /\ calls' = <<Call("Get", err, Read)>>
            /\ IF err # Nil
               THEN /\ Finish(getFailedResult(get(values, ReqKey), err))
                    /\ UNCHANGED <<values, fetched, resource, orig>>
               ELSE /\ fetched' = stored
                    /\ resource' = stored
                    /\ fresh' = TRUE
                    /\ result' = NoResult
                    /\ IF isDeleted(stored)
                       THEN /\ values' = set(values, ReqKey, TRUE)
                            /\ orig' = NoResource
                            /\ pc' = "doDelete"
                       ELSE /\ values' = set(values, ReqKey, FALSE)
                            /\ orig' = stored
                            /\ pc' = IF ~ContainsFinalizer(stored, finalizerName)
                                     THEN "applyFinalizer" ELSE "updateStatus"
    /\ UNCHANGED <<stored, workloads, now, allWorkloads>>

\* Reconcile with any answer of the store
Reconcile == ReconcileWith(GetFaults) /\ OthersIdle

\* doDelete up to r.Update: updateWorkloadStatus, then the finalizer's removal
\* from the working copy
doDelete ==
    /\ pc = "doDelete"
    /\ \E fault \in StoreFaults :
        LET u == updateWorkloadStatus(resource, now, fault, workloads)
        IN  /\ calls' = calls \o u.calls
            /\ allWorkloads' = u.matching
            /\ IF u.err # Nil
               THEN /\ Finish(deleteListFailedResult(u.err))
                    /\ resource' = u.resource
               ELSE IF ContainsFinalizer(u.resource, finalizerName)
               THEN /\ resource' = RemoveFinalizer(u.resource, finalizerName)
                    /\ pc' = "removeFinalizer"
                    /\ UNCHANGED <<result, fresh>>
               ELSE /\ Finish(Ret(noRequeue, Nil))
                    /\ resource' = u.resource
    /\ UNCHANGED <<stored, workloads, now, values, fetched, orig>>
    /\ OthersIdle

\* doDelete's r.Update of the resource without the finalizer
doDeleteUpdate ==
    /\ pc = "removeFinalizer"
    /\ \E fault \in StoreFaults :
        LET w == storeUpdate(stored, resource, fresh, fault)
        IN  /\ calls' = Append(calls, Call("Update", w.err, resource))
            /\ stored' = w.stored
            /\ resource' = w.response
            /\ Finish(deleteUpdateResult(w.err))
    /\ UNCHANGED <<workloads, now, values, fetched, orig, allWorkloads>>
    /\ OthersIdle

\* applyFinalizer: AddFinalizer and r.Update, whose answer carries the new
\* resourceVersion into the working copy
applyFinalizerWith(faults) ==
    /\ pc = "applyFinalizer"
    /\ \E fault \in faults :
        LET upd == AddFinalizer(resource, finalizerName)
            w == storeUpdate(stored, upd, fresh, fault)
        IN  /\ calls' = Append(calls, Call("Update", w.err, upd))
            /\ stored' = w.stored
            /\ resource' = w.response
            /\ result' = applyFinalizerResult(w.err)
            /\ pc' = applyFinalizerNext(w.err)
            /\ fresh' = (w.err = Nil /\ pc' # "done")
    /\ UNCHANGED <<workloads, now, values, fetched, orig, allWorkloads>>

\* applyFinalizer with any answer of the store
applyFinalizer == applyFinalizerWith(StoreFaults) /\ OthersIdle

\* doCreateUpdate with the finalizer present, up to reconcileResult:
\* updateWorkloadStatus and the test of its error
doCreateUpdateWith(faults) ==
    /\ pc = "updateStatus"
    /\ \E fault \in faults :
        LET u == updateWorkloadStatus(resource, now, fault, workloads)
        IN  /\ calls' = calls \o u.calls
            /\ allWorkloads' = u.matching
            /\ resource' = u.resource
            /\ IF u.err # Nil
               THEN Finish(createListFailedResult(u.err))
               ELSE /\ pc' = "reconcileResult"
                    /\ UNCHANGED <<result, fresh>>
    /\ UNCHANGED <<stored, workloads, now, values, fetched, orig>>

\* doCreateUpdate with any answer of the store
doCreateUpdate == doCreateUpdateWith(StoreFaults) /\ OthersIdle

\* reconcileResult up to the patch's answer: the UpToDate condition with
\* doCreateUpdate's reason and message, and Status().Patch
reconcileResultWith(faults) ==
    /\ pc = "reconcileResult"
    /\ \E fault \in faults :
        LET n == Len(allWorkloads)
            upd == [resource EXCEPT !.conditions =
                      replaceCondition(@,
                          Condition(ConditionUpToDate, "True",
                                    resource.generation,
                                    reasonFor(n), messageFor(n)),
                          now)]
            w == storeStatusPatch(stored, upd, orig, fault)
        IN  /\ calls' = Append(calls, Call("StatusPatch", w.err, upd))
            /\ stored' = w.stored
            /\ resource' = w.response
            /\ IF w.err # Nil
               THEN Finish(reconcileResultResult(w.err))
               ELSE /\ pc' = "patchGet"
                    /\ UNCHANGED <<result, fresh>>
    /\ UNCHANGED <<workloads, now, values, fetched, orig, allWorkloads>>

\* reconcileResult with any answer of the store
reconcileResult == reconcileResultWith(StoreFaults) /\ OthersIdle

\* patchAuthProxyWorkloadStatus after the patch: r.Get into orig, whose error
\* is what reconcileResult returns
patchGetWith(faults) ==
    /\ pc = "patchGet"
    /\ \E fault \in faults :
        LET err == IF ~stored.exists THEN ErrNotFound ELSE fault
        IN  /\ calls' = Append(calls, Call("Get", err, Read))
            /\ orig' = IF err = Nil THEN stored ELSE orig
            /\ Finish(reconcileResultResult(err))
    /\ UNCHANGED <<stored, workloads, now, values, fetched, resource,
                   allWorkloads>>

\* the Get after the patch with any answer of the store
patchGet == patchGetWith(GetFaults) /\ OthersIdle

\* the dispatcher takes what Reconcile returned
ReturnReset ==
    /\ pc = "done"
    /\ pc' = "idle"
    /\ LocalsReset
    /\ UNCHANGED <<stored, workloads, now, values>>

\* the return, to a caller that is not modelled further
Return == ReturnReset /\ OthersIdle

(***************************************************************************)
(* The other writers of the store, the cluster and the clock.              *)
(***************************************************************************)
WriterMayAct == pc \in {"idle", "applyFinalizer", "removeFinalizer", "reconcileResult"}

\* a user creates the resource, with or without another controller's finalizer
UserCreate ==
    /\ WriterMayAct
    /\ ~stored.exists
    /\ \E sel \in Selectors, fins \in {{}, {otherFinalizer}} :
        stored' = NewResource(sel, fins)
    /\ fresh' = FALSE
    /\ UNCHANGED <<workloads, now, values, pc, fetched, resource, orig,
                   allWorkloads, calls, result>>
    /\ OthersIdle

\* a user changes the selector: a new generation
UserEdit ==
    /\ WriterMayAct
    /\ stored.exists
    /\ stored.generation < MaxGen
    /\ \E sel \in Selectors \ {stored.spec} :
        stored' = [stored EXCEPT !.spec = sel, !.generation = @ + 1]
    /\ fresh' = FALSE
    /\ UNCHANGED <<workloads, now, values, pc, fetched, resource, orig,
                   allWorkloads, calls, result>>
    /\ OthersIdle

\* a user deletes the resource: the deletion marker is set, and the object goes
\* at once when it has no finalizer
UserDelete ==
    /\ WriterMayAct
    /\ stored.exists
    /\ ~stored.deletionTimestamp
    /\ stored' = Collected([stored EXCEPT !.deletionTimestamp = TRUE])
    /\ fresh' = FALSE
    /\ UNCHANGED <<workloads, now, values, pc, fetched, resource, orig,
                   allWorkloads, calls, result>>
    /\ OthersIdle

\* the other controller removes its finalizer
OtherRemoveFinalizer ==
    /\ WriterMayAct
    /\ stored.exists
    /\ ContainsFinalizer(stored, otherFinalizer)
    /\ stored' = Collected([stored EXCEPT !.finalizers = @ \ {otherFinalizer}])
    /\ fresh' = FALSE
    /\ UNCHANGED <<workloads, now, values, pc, fetched, resource, orig,
                   allWorkloads, calls, result>>
    /\ OthersIdle

WorkloadCreate ==
    /\ pc = "idle"
    /\ \E w \in Range(WorkloadUniverse) \ workloads :
        workloads' = workloads \cup {w}
    /\ UNCHANGED <<stored, now, values, pc, fetched, resource, orig, fresh,
                   allWorkloads, calls, result>>
    /\ OthersIdle

WorkloadDelete ==
    /\ pc = "idle"
    /\ \E w \in workloads : workloads' = workloads \ {w}
    /\ UNCHANGED <<stored, now, values, pc, fetched, resource, orig, fresh,
                   allWorkloads, calls, result>>
    /\ OthersIdle

Tick ==
    /\ pc = "idle"
    /\ now < MaxTime
    /\ now' = now + 1
    /\ UNCHANGED <<stored, workloads, values, pc, fetched, resource, orig,
                   fresh, allWorkloads, calls, result>>
    /\ OthersIdle

Next ==
    \/ Reconcile
    \/ doDelete
    \/ doDeleteUpdate
    \/ applyFinalizer
    \/ doCreateUpdate
    \/ reconcileResult
    \/ patchGet
    \/ Return
    \/ UserCreate
    \/ UserEdit
    \/ UserDelete
    \/ OtherRemoveFinalizer
    \/ WorkloadCreate
    \/ WorkloadDelete
    \/ Tick

Spec == Init /\ [][Next]_vars

(***************************************************************************)
(* SpecCond: replaceCondition on its own.  The list cIn is any list with   *)
(* at most one condition per type, a condition's time being any reading    *)
(* or the zero time; ApplyOnce applies replaceCondition to it with any     *)
(* new condition cNew at a clock reading cT1 later than every time of the  *)
(* list, and ApplyTwice applies it again, with the same cNew, to the       *)
(* result at a reading cT2 >= cT1.                                         *)
(***************************************************************************)
CondTypes    == {ConditionUpToDate, ConditionWorkloadUpToDate}
CondStatuses == {"True", "False", "Unknown"}

\* the conditions a list may hold before the call
OldConditions ==
    {[Condition(ty, st, 1, "R0", <<"m0">>) EXCEPT !.lastTransitionTime = t] :
        ty \in CondTypes, st \in CondStatuses, t \in 0..MaxTime}

\* the conditions replaceCondition is called with
NewConditions ==
    {Condition(ty, st, g, r, m) :
        ty \in CondTypes, st \in CondStatuses, g \in 1..MaxGen,
        r \in {"R0", "R1"}, m \in {<<"m0">>, <<"m1">>}}

UniqueTypes(conds) ==
    \A i, j \in 1..Len(conds) : conds[i].type = conds[j].type => i = j

CondLists ==
    {l \in SeqsUpTo(OldConditions, Cardinality(CondTypes)) : UniqueTypes(l)}

RvarsIdle ==
    /\ stored = NoResource /\ workloads = {} /\ now = 1 /\ values = <<>>
    /\ pc = "off" /\ fetched = NoResource /\ resource = NoResource
    /\ orig = NoResource
    /\ fresh = FALSE /\ allWorkloads = <<>> /\ calls = <<>>
    /\ result = NoResult

InitCond ==
    /\ cIn \in CondLists
    /\ cNew = <<>> /\ cT1 = 0 /\ cOnce = <<>> /\ cT2 = 0 /\ cTwice = <<>>
    /\ cPhase = "in"
    /\ RvarsIdle
    /\ sIn = <<>> /\ sNew = <<>> /\ sOut = <<>> /\ sPhase = "off"
    /\ InitOff

ApplyOnce ==
    /\ cPhase = "in"
    /\ \E c \in NewConditions, t \in 1..(MaxTime + 1) :
        /\ \A i \in 1..Len(cIn) : cIn[i].lastTransitionTime < t
        /\ cNew' = c
        /\ cT1' = t
        /\ cOnce' = replaceCondition(cIn, c, t)
    /\ cPhase' = "once"
    /\ UNCHANGED <<cIn, cT2, cTwice>>
    /\ UNCHANGED <<rvars, svars, lvars, tvars, dvars>>

ApplyTwice ==
    /\ cPhase = "once"
    /\ \E t \in cT1..(MaxTime + 1) :
        /\ cT2' = t
        /\ cTwice' = replaceCondition(cOnce, cNew, t)
    /\ cPhase' = "twice"
    /\ UNCHANGED <<cIn, cNew, cT1, cOnce>>
    /\ UNCHANGED <<rvars, svars, lvars, tvars, dvars>>

NextCond == ApplyOnce \/ ApplyTwice

SpecCond == InitCond /\ [][NextCond]_vars

(***************************************************************************)
(* SpecStatus: replaceStatus on its own.  The list sIn is any list with at *)
(* most one entry per (kind, version, namespace, name); ApplyStatus        *)
(* applies replaceStatus to it with any new entry.                         *)
(***************************************************************************)
StatusKeys ==
    [kind : {"Deployment", "Job"}, version : {"apps/v1", "batch/v1"},
     namespace : {"default", "other"}, name : {"w1", "w2"}]

\* an entry of the list before the call, and the entry the call brings
OldEntry(k) == [newStatus(k) EXCEPT !.conditions = <<"old">>]
NewEntry(k) == [newStatus(k) EXCEPT !.conditions = <<"new">>]

UniqueKeys(statuses) ==
    \A i, j \in 1..Len(statuses) :
        SameWorkload(statuses[i], statuses[j]) => i = j

StatusLists ==
    {l \in SeqsUpTo({OldEntry(k) : k \in StatusKeys}, MaxStatuses) :
        UniqueKeys(l)}

InitStatus ==
    /\ sIn \in StatusLists
    /\ sNew = <<>> /\ sOut = <<>>
    /\ sPhase = "in"
    /\ RvarsIdle
    /\ cIn = <<>> /\ cNew = <<>> /\ cT1 = 0 /\ cOnce = <<>>
    /\ cT2 = 0 /\ cTwice = <<>> /\ cPhase = "off"
    /\ InitOff

ApplyStatus ==
    /\ sPhase = "in"
    /\ \E k \in StatusKeys :
        /\ sNew' = NewEntry(k)
        /\ sOut' = replaceStatus(sIn, NewEntry(k))
    /\ sPhase' = "out"
    /\ UNCHANGED sIn
    /\ UNCHANGED <<rvars, cvars, lvars, tvars, dvars>>

NextStatus == ApplyStatus

SpecStatus == InitStatus /\ [][NextStatus]_vars

(***************************************************************************)
(* SpecList: listWorkloads on its own.  The selector is any combination of *)
(* a known or unknown kind, a name or none, a namespace or none and a      *)
(* label selector that is absent, valid or malformed; ns is the resource's *)
(* namespace; the cluster holds any of the workloads; the store answers    *)
(* the lookup or fails it, not-found (a lagging cache) included.           *)
(***************************************************************************)
ListSelectors ==
    {Selector(kind, name, ns, sel) :
        kind \in {"Deployment", "Bogus"}, name \in {"", "w1", "w3"},
        ns \in {"", "default", "other"}, sel \in {"", "valid", "malformed"}}

ListNamespaces == {"default", "other"}

InitList ==
    /\ lSel \in ListSelectors
    /\ lNs \in ListNamespaces
    /\ lFault \in GetFaults
    /\ lExisting \in SUBSET Range(WorkloadUniverse)
    /\ lOut = Listed(<<>>, Nil, <<>>)
    /\ lPhase = "in"
    /\ RvarsIdle
    /\ CondOff /\ StatusOff /\ TrackerOff /\ DispatcherOff

ApplyList ==
    /\ lPhase = "in"
    /\ lOut' = listWorkloads(lSel, lNs, lFault, lExisting)
    /\ lPhase' = "out"
    /\ UNCHANGED <<lSel, lNs, lFault, lExisting>>
    /\ UNCHANGED <<rvars, cvars, svars, tvars, dvars>>

NextList == ApplyList

SpecList == InitList /\ [][NextList]_vars

(***************************************************************************)
(* SpecTracker: recentlyDeletedCache shared by the goroutines that run     *)
(* Reconcile.  Each goroutine calls set or get for a key no other          *)
(* goroutine has a call in flight for (the dispatcher runs one invocation  *)
(* per key), and a call is three steps: taking c.lock (Lock for set, RLock *)
(* for get), the access to c.values, and the deferred Unlock or RUnlock at *)
(* the return.  `completed` records, per key, the value of the latest set  *)
(* that has returned.                                                      *)
(***************************************************************************)
Procs == {"g1", "g2"}

\* the key of another resource
OtherKey == [namespace |-> "default", name |-> "apw2"]

Keys == {ReqKey, OtherKey}

Proc(at, k, deleted, ret) ==
    [pc |-> at, key |-> k, deleted |-> deleted, ret |-> ret]

\* sync.RWMutex: Lock waits until no writer and no reader holds the lock
canLock(lk) == lk.writer = "none" /\ lk.readers = {}

\* an RLock that does not wait for the writer
canRLockNoWait(lk) == TRUE

\* sync.RWMutex: RLock waits until no writer holds the lock
canRLock(lk) == lk.writer = "none"

rvarsButValues ==
    <<stored, workloads, now, pc, fetched, resource, orig, fresh,
      allWorkloads, calls, result>>

InitTracker ==
    /\ RvarsIdle
    /\ lock = [writer |-> "none", readers |-> {}]
    /\ procs = [p \in Procs |-> Proc("idle", ReqKey, FALSE, FALSE)]
    /\ completed = <<>>
    /\ CondOff /\ StatusOff /\ ListOff /\ DispatcherOff

\* no other goroutine has a call in flight for the key
KeyFree(p, k) ==
    \A q \in Procs \ {p} : procs[q].pc = "idle" \/ procs[q].key # k

TrackerFrame == UNCHANGED <<rvarsButValues, cvars, svars, lvars, dvars>>

\* a goroutine calls c.set(k, deleted)
CallSet(p) ==
    /\ procs[p].pc = "idle"
    /\ \E k \in Keys, d \in BOOLEAN :
        /\ KeyFree(p, k)
        /\ procs' = [procs EXCEPT ![p] = Proc("set", k, d, procs[p].ret)]
    /\ UNCHANGED <<values, lock, completed>>
    /\ TrackerFrame

\* c.lock.Lock()
SetLock(p) ==
    /\ procs[p].pc = "set"
    /\ canLock(lock)
    /\ lock' = [lock EXCEPT !.writer = p]
    /\ procs' = [procs EXCEPT ![p].pc = "setLocked"]
    /\ UNCHANGED <<values, completed>>
    /\ TrackerFrame

\* the map is made if nil, and c.values[k] = deleted
SetWrite(p) ==
    /\ procs[p].pc = "setLocked"
    /\ values' = set(values, procs[p].key, procs[p].deleted)
    /\ procs' = [procs EXCEPT ![p].pc = "setWritten"]
    /\ UNCHANGED <<lock, completed>>
    /\ TrackerFrame

\* the deferred c.lock.Unlock(): set returns
SetUnlock(p) ==
    /\ procs[p].pc = "setWritten"
    /\ lock' = [lock EXCEPT !.writer = "none"]
    /\ completed' = (procs[p].key :> procs[p].deleted) @@ completed
    /\ procs' = [procs EXCEPT ![p].pc = "idle"]
    /\ UNCHANGED values
    /\ TrackerFrame

\* a goroutine calls c.get(k)
CallGet(p) ==
    /\ procs[p].pc = "idle"
    /\ \E k \in Keys :
        /\ KeyFree(p, k)
        /\ procs' = [procs EXCEPT ![p] =
                        Proc("get", k, procs[p].deleted, procs[p].ret)]
    /\ UNCHANGED <<values, lock, completed>>
    /\ TrackerFrame

\* c.lock.RLock()
GetRLock(p) ==
    /\ procs[p].pc = "get"
    /\ canRLock(lock)
    /\ lock' = [lock EXCEPT !.readers = @ \cup {p}]
    /\ procs' = [procs EXCEPT ![p].pc = "getLocked"]
    /\ UNCHANGED <<values, completed>>
    /\ TrackerFrame

\* deleted, ok := c.values[k], and the value get is about to return
GetRead(p) ==
    /\ procs[p].pc = "getLocked"
    /\ procs' = [procs EXCEPT ![p].pc = "getRead",
                              ![p].ret = get(values, procs[p].key)]
    /\ UNCHANGED <<values, lock, completed>>
    /\ TrackerFrame

\* the deferred c.lock.RUnlock(): get returns
GetRUnlock(p) ==
    /\ procs[p].pc = "getRead"
    /\ lock' = [lock EXCEPT !.readers = @ \ {p}]
    /\ procs' = [procs EXCEPT ![p].pc = "idle"]
    /\ UNCHANGED <<values, completed>>
    /\ TrackerFrame

NextTracker ==
    \/ \E p \in Procs : CallSet(p)
    \/ \E p \in Procs : SetLock(p)
    \/ \E p \in Procs : SetWrite(p)
    \/ \E p \in Procs : SetUnlock(p)
    \/ \E p \in Procs : CallGet(p)
    \/ \E p \in Procs : GetRLock(p)
    \/ \E p \in Procs : GetRead(p)
    \/ \E p \in Procs : GetRUnlock(p)

SpecTracker == InitTracker /\ [][NextTracker]_vars

(***************************************************************************)
(* SpecConverge: the reconcile loop under its dispatcher, for a resource   *)
(* that was created without the finalizer and that nobody else changes.    *)
(* The key is in the work queue at the start (the creation), possibly with *)
(* the deletion tracker still holding true for it from an earlier resource *)
(* of the same key.  The dispatcher invokes Reconcile when the key is      *)
(* queued and queues it again exactly when the invocation returns a        *)
(* requeue directive or an error.  At most faultsLeft store calls fail: a  *)
(* transient error, or not-found for the Get of the resource (a cache that *)
(* lags).  The steps are those of Spec; every step that can be taken       *)
(* eventually is (weak fairness): the dispatcher does not stop and the     *)
(* store answers every call.                                               *)
(***************************************************************************)
\* the answers of the store while failures are left, and after
AllowedFaults(faults) == IF faultsLeft > 0 THEN faults ELSE {Nil}

\* the store failed the call on its own
Injected(c) == c.err = ErrTransient \/ (c.op = "Get" /\ c.err = ErrNotFound)

\* a failure of the call the step issued is one failure less to come
Spend ==
    faultsLeft' = IF calls' # calls /\ Injected(calls'[Len(calls')])
                  THEN faultsLeft - 1 ELSE faultsLeft

\* the dispatcher queues the key again on Requeue, RequeueAfter or an error
Requeued(r) == r.res.Requeue \/ r.res.RequeueAfter > 0 \/ r.err # Nil

ConvergeFrame == UNCHANGED <<cvars, svars, lvars, tvars>>

InitConverge ==
    /\ \E sel \in Selectors : stored = NewResource(sel, {})
    /\ workloads \in SUBSET Range(WorkloadUniverse)
    /\ now = 1
    /\ values \in {<<>>, set(<<>>, ReqKey, TRUE)}
    /\ pc = "idle"
    /\ fetched = NoResource /\ resource = NoResource /\ orig = NoResource
    /\ fresh = FALSE /\ allWorkloads = <<>> /\ calls = <<>>
    /\ result = NoResult
    /\ queued = TRUE
    /\ faultsLeft \in 0..MaxFaults
    /\ CondOff /\ StatusOff /\ ListOff /\ TrackerOff

\* the dispatcher takes the key off the queue and calls Reconcile
Dispatch ==
    /\ queued
    /\ ReconcileWith(AllowedFaults(GetFaults))
    /\ queued' = FALSE
    /\ Spend
    /\ ConvergeFrame

ConvergeApplyFinalizer ==
    /\ applyFinalizerWith(AllowedFaults(StoreFaults))
    /\ Spend
    /\ UNCHANGED queued
    /\ ConvergeFrame

ConvergeCreateUpdate ==
    /\ doCreateUpdateWith(AllowedFaults(StoreFaults))
    /\ Spend
    /\ UNCHANGED queued
    /\ ConvergeFrame

ConvergeReconcileResult ==
    /\ reconcileResultWith(AllowedFaults(StoreFaults))
    /\ Spend
    /\ UNCHANGED queued
    /\ ConvergeFrame

ConvergePatchGet ==
    /\ patchGetWith(AllowedFaults(GetFaults))
    /\ Spend
    /\ UNCHANGED queued
    /\ ConvergeFrame

\* Reconcile returns to the dispatcher, which honours what it returned
ReturnToDispatcher ==
    /\ ReturnReset
    /\ queued' = Requeued(result)
    /\ UNCHANGED faultsLeft
    /\ ConvergeFrame

NextConverge ==
    \/ Dispatch
    \/ ConvergeApplyFinalizer
    \/ ConvergeCreateUpdate
    \/ ConvergeReconcileResult
    \/ ConvergePatchGet
    \/ ReturnToDispatcher

SpecConverge == InitConverge /\ [][NextConverge]_vars /\ WF_vars(NextConverge)

(***************************************************************************)
(* Vocabulary of the properties.                                           *)
(***************************************************************************)
WriteCalls == {i \in 1..Len(calls) : calls[i].op \in WriteOps}

ListCalls == {i \in 1..Len(calls) : calls[i].op \in {"List", "GetWorkload"}}

\* no store call of the invocation failed; a point lookup that finds nothing
\* is an answer, not a failure
NoCallFailed ==
    \A i \in 1..Len(calls) :
        \/ calls[i].err = Nil
        \/ calls[i].op = "GetWorkload" /\ calls[i].err = ErrNotFound

\* the invocation read the resource
Fetched == fetched.exists

HasFinalizer(res) == finalizerName \in res.finalizers

\* the key's entry of the deletion tracker is true
TrackedDeleted == ReqKey \in DOMAIN values /\ values[ReqKey] = TRUE

\* the namespace the selector resolves in
TargetNamespace(sel) ==
    IF sel.namespace # "" THEN sel.namespace ELSE ReqKey.namespace

\* the workloads of the cluster the selector designates
TargetsOf(sel) ==
    {w \in workloads :
        /\ w.kind = sel.kind
        /\ w.namespace = TargetNamespace(sel)
        /\ IF sel.name # "" THEN w.name = sel.name ELSE w.labelled}

\* the selector cannot be resolved, or the store failed the lookup
ResolutionFailed(sel) ==
    \/ sel.kind \notin KnownKinds
    \/ sel.name = "" /\ sel.selector = "malformed"
    \/ \E i \in ListCalls : calls[i].err \notin {Nil, ErrNotFound}

\* the selector was resolved by an answered lookup
ResolutionSucceeded(sel) ==
    /\ ~ResolutionFailed(sel)
    /\ ListCalls # {}

\* the list holds an entry for the workload whose condition of the type is True
HasTrueCondition(statuses, w, type) ==
    \E i \in 1..Len(statuses) :
        /\ statuses[i].kind = w.kind /\ statuses[i].version = w.version
        /\ statuses[i].namespace = w.namespace /\ statuses[i].name = w.name
        /\ \E j \in 1..Len(statuses[i].conditions) :
            /\ statuses[i].conditions[j].type = type
            /\ statuses[i].conditions[j].status = "True"

\* the pieces of `part` occur in `message`, in a row
Mentions(message, part) ==
    \E k \in 1..Len(message) :
        /\ k + Len(part) - 1 <= Len(message)
        /\ SubSeq(message, k, k + Len(part) - 1) = part

(***************************************************************************)
(* C1..C7: the reconcile loop (Spec).                                      *)
(***************************************************************************)
\* C1: an invocation of Reconcile issues at most one mutating store call
\* (Update or Status().Patch), on every branch and whichever calls fail.
C1_AtMostOneWrite == Cardinality(WriteCalls) <= 1

\* an invocation whose one write the store rejected has returned
C1_Witness ==
    /\ pc = "done"
    /\ Cardinality(WriteCalls) = 1
    /\ \E i \in WriteCalls : calls[i].err = ErrConflict

\* C2: an invocation that fetched a resource with the deletion marker set is
\* on the delete path only: it issues no status patch, and no update it sends
\* carries this controller's finalizer unless the fetched object had it.
C2_DeletionPrecedence ==
    (Fetched /\ fetched.deletionTimestamp) =>
        /\ pc \in {"doDelete", "removeFinalizer", "done"}
        /\ orig = NoResource
        /\ \A i \in 1..Len(calls) :
            /\ calls[i].op # "StatusPatch"
            /\ calls[i].op = "Update" =>
                  (HasFinalizer(calls[i].sent) => HasFinalizer(fetched))

\* a deleted resource that lacks this controller's finalizer was reconciled
C2_Witness ==
    /\ pc = "done"
    /\ Fetched /\ fetched.deletionTimestamp
    /\ ~HasFinalizer(fetched)
    /\ fetched.conditions = <<>>

\* C3: an invocation that fetched a resource without deletion marker and
\* without the finalizer issues, after the Get, one Update and nothing else; the
\* object sent is the fetched one plus the finalizer; it returns requeueNow
\* (with the Update's error, if any); when the Update is accepted the stored
\* object has the finalizer and the fetched status.
C3_AddFinalizer ==
    (pc = "done" /\ Fetched /\ ~fetched.deletionTimestamp /\ ~HasFinalizer(fetched)) =>
        /\ Len(calls) = 2
        /\ calls[2].op = "Update"
        /\ calls[2].sent =
              [fetched EXCEPT !.finalizers = @ \cup {finalizerName}]
        /\ result = [res |-> requeueNow, err |-> calls[2].err]
        /\ calls[2].err = Nil =>
              /\ stored = calls[2].sent
              /\ resource = stored
              /\ stored.conditions = fetched.conditions
              /\ stored.workloadStatus = fetched.workloadStatus

\* the finalizer was added and persisted
C3_Witness ==
    /\ pc = "done"
    /\ Fetched /\ ~fetched.deletionTimestamp /\ ~HasFinalizer(fetched)
    /\ calls[2].err = Nil
    /\ HasFinalizer(stored)
    /\ result = [res |-> requeueNow, err |-> Nil]

\* C4: an invocation that fetched a resource with the deletion marker and the
\* finalizer has the key tracked as deleted; when the selector resolves and no
\* store call fails, it looks the targets up, sends exactly one Update, of the
\* object without the finalizer and with an up-to-date entry per target, the
\* stored object no longer has the finalizer, and it returns no requeue and no
\* error.
C4_DeleteRemovesFinalizer ==
    (Fetched /\ fetched.deletionTimestamp /\ HasFinalizer(fetched)) =>
        /\ TrackedDeleted
        /\ (pc = "done" /\ ResolutionSucceeded(fetched.spec) /\ NoCallFailed) =>
            /\ Cardinality(WriteCalls) = 1
            /\ calls[Len(calls)].op = "Update"
            /\ calls[Len(calls)].sent.finalizers =
                  fetched.finalizers \ {finalizerName}
            /\ \A w \in TargetsOf(fetched.spec) :
                  HasTrueCondition(calls[Len(calls)].sent.workloadStatus, w,
                                   ConditionWorkloadUpToDate)
            /\ ~HasFinalizer(stored)
            /\ result = [res |-> noRequeue, err |-> Nil]

\* the deletion of a resource with a matching target completed
C4_Witness ==
    /\ pc = "done"
    /\ Fetched /\ fetched.deletionTimestamp /\ HasFinalizer(fetched)
    /\ TargetsOf(fetched.spec) # {}
    /\ NoCallFailed
    /\ ~stored.exists
    /\ result = [res |-> noRequeue, err |-> Nil]

\* C5: when the Get of the resource answers not-found, the invocation returns
\* at once: no requeue and no error when the key's tracker entry is true,
\* requeueWithDelay and the error otherwise; it issues no other call and
\* changes neither the store nor the tracker.
C5_NotFound ==
    [][(pc = "idle" /\ pc' = "done" /\ calls'[1].err = ErrNotFound) =>
          /\ Len(calls') = 1
          /\ calls'[1].op = "Get"
          /\ values' = values
          /\ stored' = stored
          /\ result' = IF TrackedDeleted
                       THEN [res |-> noRequeue, err |-> Nil]
                       ELSE [res |-> requeueWithDelay, err |-> ErrNotFound]]_vars

\* a not-found for a key tracked as deleted ended quietly
C5_Witness ==
    /\ pc = "done"
    /\ Len(calls) = 1 /\ calls[1].err = ErrNotFound
    /\ TrackedDeleted
    /\ result = [res |-> noRequeue, err |-> Nil]

\* C6: an invocation that fetched a resource with the finalizer and no
\* deletion marker and could not resolve its targets returns requeueWithDelay
\* and the error, issues no write, and leaves its working copy as fetched.
C6_ListError ==
    (pc = "done" /\ Fetched /\ ~fetched.deletionTimestamp /\ HasFinalizer(fetched)
        /\ ResolutionFailed(fetched.spec)) =>
        /\ result.res = requeueWithDelay
        /\ result.err \in {ErrUnknownKind, ErrBadSelector, ErrTransient}
        /\ WriteCalls = {}
        /\ resource = fetched

\* the store failed the lookup for a resource that already had a status
C6_Witness ==
    /\ pc = "done"
    /\ Fetched /\ ~fetched.deletionTimestamp /\ HasFinalizer(fetched)
    /\ fetched.workloadStatus # <<>>
    /\ result = [res |-> requeueWithDelay, err |-> ErrTransient]

\* C7: an invocation that fetched a resource with the finalizer and no
\* deletion marker, resolved its selector to the N targets of the cluster and
\* had no store call fail, issues exactly one status patch and returns no
\* requeue and no error; the stored UpToDate condition is True, with reason
\* NoWorkloadsFound when N = 0 and FinishedReconcile, and a message with N's
\* digits, otherwise; every target has a stored entry with WorkloadUpToDate True.
C7_UpToDate ==
    (pc = "done" /\ Fetched /\ ~fetched.deletionTimestamp /\ HasFinalizer(fetched)
        /\ ResolutionSucceeded(fetched.spec) /\ NoCallFailed) =>
        LET n == Cardinality(TargetsOf(fetched.spec))
            c == findCondition(stored.conditions, ConditionUpToDate)
        IN  /\ Cardinality(WriteCalls) = 1
            /\ \A i \in WriteCalls : calls[i].op = "StatusPatch"
            /\ result = [res |-> noRequeue, err |-> Nil]
            /\ Len(c) = 1
            /\ c[1].status = "True"
            /\ n = 0 => c[1].reason = ReasonNoWorkloadsFound
            /\ n >= 1 => /\ c[1].reason = ReasonFinishedReconcile
                         /\ Mentions(c[1].message, Itoa(n))
            /\ \A w \in TargetsOf(fetched.spec) :
                  HasTrueCondition(stored.workloadStatus, w,
                                   ConditionWorkloadUpToDate)

\* two targets were reconciled
C7_Witness ==
    /\ pc = "done"
    /\ Fetched /\ ~fetched.deletionTimestamp /\ HasFinalizer(fetched)
    /\ Cardinality(TargetsOf(fetched.spec)) = 2
    /\ NoCallFailed
    /\ Len(stored.workloadStatus) = 2
    /\ result = [res |-> noRequeue, err |-> Nil]

\* no targets were found
C7_WitnessNone ==
    /\ pc = "done"
    /\ Fetched /\ ~fetched.deletionTimestamp /\ HasFinalizer(fetched)
    /\ ResolutionSucceeded(fetched.spec) /\ TargetsOf(fetched.spec) = {}
    /\ NoCallFailed
    /\ result = [res |-> noRequeue, err |-> Nil]

(***************************************************************************)
(* C8, C9: replaceCondition (SpecCond).                                    *)
(***************************************************************************)
\* the positions of cIn that hold a condition of cNew's type
SameType == {i \in 1..Len(cIn) : cIn[i].type = cNew.type}

\* C8 as stated: replaceCondition changes the lastTransitionTime of a type that
\* is already in the list if and only if the new status differs from the
\* prior status of that type.
C8_ChangesIffStatusDiffers ==
    cPhase \in {"once", "twice"} =>
        \A i \in SameType :
            (cOnce[i].lastTransitionTime # cIn[i].lastTransitionTime)
                <=> (cNew.status # cIn[i].status)

\* C8 as amended: for a type already in the list, replaceCondition keeps the
\* prior lastTransitionTime if and only if the new status equals the prior
\* status and the prior time is not zero, and stamps the clock reading
\* otherwise; so the time changes if and only if the status differs or the
\* prior time is zero.  Reason, message and observedGeneration are taken from
\* the new condition and do not bear on the time.
C8_KeepsTimeIffSameStatusAndStamped ==
    cPhase \in {"once", "twice"} =>
        \A i \in SameType :
            LET keep == /\ cNew.status = cIn[i].status
                        /\ cIn[i].lastTransitionTime # ZeroTime
            IN  /\ cOnce[i].lastTransitionTime =
                      IF keep THEN cIn[i].lastTransitionTime ELSE cT1
                /\ (cOnce[i].lastTransitionTime # cIn[i].lastTransitionTime)
                      <=> ~keep
                /\ cOnce[i].reason = cNew.reason
                /\ cOnce[i].message = cNew.message
                /\ cOnce[i].observedGeneration = cNew.observedGeneration

\* a condition with the same status and a zero time was replaced and stamped
C8_Witness ==
    /\ cPhase = "once"
    /\ \E i \in SameType :
        /\ cIn[i].status = cNew.status
        /\ cIn[i].lastTransitionTime = ZeroTime
        /\ cIn[i].reason # cNew.reason
        /\ cOnce[i].lastTransitionTime = cT1

\* C9: applying replaceCondition a second time with the same condition, at
\* the same or a later clock reading, yields the list the first application
\* yielded, times included: same length, same entries in the same order, and
\* the types still unique.
C9_Idempotent ==
    cPhase = "twice" =>
        /\ cTwice = cOnce
        /\ Len(cTwice) = Len(cOnce)
        /\ UniqueTypes(cTwice)
        /\ \E i \in 1..Len(cTwice) :
            /\ cTwice[i].type = cNew.type
            /\ cTwice[i].status = cNew.status
            /\ cTwice[i].lastTransitionTime = cOnce[i].lastTransitionTime
            /\ cTwice[i].lastTransitionTime # ZeroTime

\* the first application stamped a changed status, the second came later
C9_Witness ==
    /\ cPhase = "twice"
    /\ cT2 > cT1
    /\ \E i \in SameType :
        /\ cIn[i].status # cNew.status
        /\ cOnce[i].lastTransitionTime = cT1
        /\ cTwice[i].lastTransitionTime = cT1

C10_WitnessLoop ==
    /\ Len(stored.workloadStatus) = 2
    /\ stored.workloadStatus[1].conditions[1].lastTransitionTime
          # stored.workloadStatus[2].conditions[1].lastTransitionTime

(***************************************************************************)
(* C11: listWorkloads (SpecList).                                          *)
(***************************************************************************)
\* the namespace listWorkloads resolves lSel in
ListNamespace == IF lSel.namespace # "" THEN lSel.namespace ELSE lNs

\* the workloads of the cluster with the selector's kind and name in that
\* namespace
NamedTargets ==
    {w \in lExisting : /\ w.kind = lSel.kind
                       /\ w.namespace = ListNamespace
                       /\ w.name = lSel.name}

\* C11: with a non-empty name in the selector, listWorkloads issues at most
\* one store call, a Get of the key (selector.namespace if set, else ns;
\* selector.name), and exactly one when the kind is known; it issues no List
\* and never fails on the label selector, whatever that is; a Get answered
\* without error returns the one workload of that key, and a Get answered
\* not-found returns the empty list and no error.
C11_NameResolution ==
    (lPhase = "out" /\ lSel.name # "") =>
        /\ Len(lOut.calls) <= 1
        /\ lSel.kind \in KnownKinds => Len(lOut.calls) = 1
        /\ \A i \in 1..Len(lOut.calls) :
              /\ lOut.calls[i].op = "GetWorkload"
              /\ lOut.calls[i].key =
                    [namespace |-> ListNamespace, name |-> lSel.name]
              /\ lOut.calls[i].err = Nil =>
                    /\ lOut.err = Nil
                    /\ Len(lOut.list) = 1
                    /\ lOut.list[1] \in NamedTargets
              /\ lOut.calls[i].err = ErrNotFound =>
                    /\ lOut.err = Nil
                    /\ lOut.list = <<>>
        /\ lOut.err # ErrBadSelector
        /\ (lSel.kind \in KnownKinds /\ lFault = Nil) =>
              /\ lOut.err = Nil
              /\ Len(lOut.list) = Cardinality(NamedTargets)

\* a name with a malformed label selector, in the selector's own namespace,
\* resolved to the one workload of that name
C11_Witness ==
    /\ lPhase = "out"
    /\ lSel.name # "" /\ lSel.selector = "malformed"
    /\ lSel.namespace # "" /\ lSel.namespace # lNs
    /\ Cardinality(lExisting) = 2
    /\ Len(lOut.list) = 1 /\ lOut.list[1].name = lSel.name
    /\ lOut.err = Nil

\* a name no workload has resolved to the empty list without an error
C11_WitnessNotFound ==
    /\ lPhase = "out"
    /\ lSel.name = "w3" /\ lSel.selector = "valid"
    /\ lExisting # {}
    /\ lFault = Nil
    /\ Len(lOut.calls) = 1 /\ lOut.calls[1].err = ErrNotFound
    /\ lOut.list = <<>> /\ lOut.err = Nil

(***************************************************************************)
(* C12..C14: store failures, resolution errors and write conflicts (Spec). *)
(***************************************************************************)
\* the store call failed; a point lookup that finds nothing is an answer
Failed(c) == c.err # Nil /\ ~(c.op = "GetWorkload" /\ c.err = ErrNotFound)

FailedCalls == {i \in 1..Len(calls) : Failed(calls[i])}

\* the invocation is on the delete path
OnDeletePath == Fetched /\ fetched.deletionTimestamp

\* C12 as stated: an invocation one of whose store calls failed (the Get of the
\* resource, the Get or List of the targets, the Update of either path, the
\* status patch) returns requeueWithDelay and that call's error.
C12_FailedCallRequeuesWithDelay ==
    (pc = "done" /\ FailedCalls # {}) =>
        \E i \in FailedCalls :
            result = [res |-> requeueWithDelay, err |-> calls[i].err]

\* C12 as amended: a failed store call is the invocation's last call, and what
\* the invocation returns depends on the call:
\*   the Get of the resource    requeueWithDelay and the error, unless the key
\*                              is tracked as deleted: then no requeue, no error
\*   the Get or List of targets requeueWithDelay and the error on the
\*                              create/update path, requeueNow and the error on
\*                              the delete path
\*   the Update                 requeueNow and the error when adding the
\*                              finalizer, no requeue and the error when
\*                              removing it
\*   the status patch, and the
\*   Get that follows it        no requeue and the error
C12_FailedCallSurfaced ==
    (pc = "done" /\ FailedCalls # {}) =>
        LET n == Len(calls)
            c == calls[n]
        IN  /\ FailedCalls = {n}
            /\ (c.op = "Get" /\ n = 1) =>
                  result = IF TrackedDeleted
                           THEN [res |-> noRequeue, err |-> Nil]
                           ELSE [res |-> requeueWithDelay, err |-> c.err]
            /\ c.op \in {"GetWorkload", "List"} =>
                  result = [res |-> IF OnDeletePath THEN requeueNow
                                    ELSE requeueWithDelay,
                            err |-> c.err]
            /\ c.op = "Update" =>
                  result = [res |-> IF OnDeletePath THEN noRequeue
                                    ELSE requeueNow,
                            err |-> c.err]
            /\ (c.op = "StatusPatch" \/ (c.op = "Get" /\ n > 1)) =>
                  result = [res |-> noRequeue, err |-> c.err]

\* the store failed the status patch: the error came back with no requeue
C12_Witness ==
    /\ pc = "done"
    /\ calls[Len(calls)].op = "StatusPatch"
    /\ calls[Len(calls)].err = ErrTransient
    /\ result = [res |-> noRequeue, err |-> ErrTransient]

\* the store rejected the Update that removes the finalizer
C12_WitnessDelete ==
    /\ pc = "done"
    /\ OnDeletePath
    /\ calls[Len(calls)].op = "Update"
    /\ calls[Len(calls)].err = ErrConflict
    /\ result = [res |-> noRequeue, err |-> ErrConflict]

\* C13: an invocation that returns a resolution error (unknown kind,
\* malformed label selector) does not return the immediate-requeue directive,
\* on the create/update path and on the delete path alike.
C13_NoImmediateRequeueOnResolutionError ==
    (pc = "done" /\ result.err \in {ErrUnknownKind, ErrBadSelector}) =>
        result.res # requeueNow

\* what of the stored object only the other writers change
Meta(res) ==
    [exists |-> res.exists, generation |-> res.generation, spec |-> res.spec,
     deletionTimestamp |-> res.deletionTimestamp]

\* C14: a write of the invocation that the store accepted (the Update of the
\* finalizer, the status patch) met the object as the invocation read it: no
\* other writer had changed it in between (a change of theirs makes the store
\* reject the write, with an error and no effect); and an invocation issues
\* no second write and no second read-then-write after a rejected one.
C14_WritesConditionalOnVersion ==
    \A i \in WriteCalls :
        /\ (calls[i].err = Nil /\ stored.exists) =>
              /\ Meta(stored) = Meta(fetched)
              /\ calls[i].op = "StatusPatch" =>
                    stored.finalizers = fetched.finalizers
        /\ calls[i].err = ErrConflict =>
              /\ i = Len(calls)
              /\ pc = "done" /\ result.err = ErrConflict

\* C16: an invocation on the delete path whose object has the finalizer and
\* whose targets cannot be resolved or listed still sends the Update that
\* removes the finalizer; when the store accepts it the finalizer is gone
\* from the stored object and the invocation returns no requeue.
C16_DeleteDespiteListError ==
    (pc = "done" /\ OnDeletePath /\ HasFinalizer(fetched)
        /\ ResolutionFailed(fetched.spec)) =>
        /\ \E i \in WriteCalls :
              /\ calls[i].op = "Update"
              /\ ~HasFinalizer(calls[i].sent)
        /\ (\A i \in WriteCalls : calls[i].err = Nil) =>
              /\ ~HasFinalizer(stored)
              /\ result.res = noRequeue

(***************************************************************************)
(* C15: recentlyDeletedCache under concurrency (SpecTracker).              *)
(***************************************************************************)
\* the goroutine is between Lock and Unlock of set, between RLock and RUnlock
\* of get
InSet(p) == procs[p].pc \in {"setLocked", "setWritten"}
InGet(p) == procs[p].pc \in {"getLocked", "getRead"}

\* the value of the latest set of the key that has returned, false when there
\* is none
LatestSet(k) == IF k \in DOMAIN completed THEN completed[k] ELSE FALSE

\* a set of the key has written the map and not yet returned
BeingSet(k) == \E p \in Procs : procs[p].pc = "setWritten" /\ procs[p].key = k

\* C15: with goroutines calling set and get for different keys in any
\* interleaving, every access to the map is made holding the lock (the writer
\* in set, a reader in get); while a goroutine is inside set no other goroutine
\* is inside set or get; the value get is about to return is false for a key
\* no set has completed for and the value of the latest completed set of the
\* key otherwise; and the map holds, for every key but the one a set is in the
\* middle of writing, exactly what the latest completed set of that key
\* stored: a set of one key leaves every other key as it was.
C15_TrackerUnderConcurrency ==
    procs # <<>> =>
        /\ \A p \in Procs :
              /\ InSet(p) => lock.writer = p /\ lock.readers = {}
              /\ InGet(p) => p \in lock.readers
              /\ InSet(p) => \A q \in Procs \ {p} : ~InSet(q) /\ ~InGet(q)
              /\ procs[p].pc = "getRead" =>
                    procs[p].ret = LatestSet(procs[p].key)
        /\ \A k \in Keys :
              ~BeingSet(k) =>
                  /\ (k \in DOMAIN values) = (k \in DOMAIN completed)
                  /\ k \in DOMAIN values => values[k] = completed[k]

\* a get of a key set to true, then to false, reads false while the other
\* goroutine waits for the lock to set the other key; that key reads true
C15_Witness ==
    /\ procs # <<>>
    /\ \E p \in Procs, q \in Procs :
        /\ procs[p].pc = "getRead" /\ procs[p].key = ReqKey
        /\ procs[p].ret = FALSE
        /\ ReqKey \in DOMAIN completed
        /\ OtherKey \in DOMAIN values /\ values[OtherKey] = TRUE
        /\ procs[q].pc = "set" /\ procs[q].key = OtherKey

\* two goroutines read at once, one of them a key never set
C15_WitnessReaders ==
    /\ procs # <<>>
    /\ lock.readers = Procs
    /\ \E p \in Procs :
        /\ procs[p].pc = "getRead"
        /\ procs[p].key \notin DOMAIN values
        /\ procs[p].ret = FALSE
    /\ \E p \in Procs :
        /\ procs[p].pc = "getRead"
        /\ procs[p].ret = TRUE

(***************************************************************************)
(* C17: convergence (SpecConverge).                                        *)
(***************************************************************************)
\* the selector can be resolved
Resolvable(sel) ==
    /\ sel.kind \in KnownKinds
    /\ sel.name # "" \/ sel.selector # "malformed"

\* the stored resource has the finalizer and UpToDate=True
Converged ==
    /\ HasFinalizer(stored)
    /\ \E i \in 1..Len(stored.conditions) :
          /\ stored.conditions[i].type = ConditionUpToDate
          /\ stored.conditions[i].status = "True"

\* the loop has come to rest: no invocation runs and none is queued
AtRest == pc = "idle" /\ ~queued

\* C17: for a resource without deletion marker and finalizer whose selector
\* resolves, with the key tracked as deleted or not, under a dispatcher that
\* re-invokes exactly on a requeue directive or an error and with finitely
\* many store failures, the loop eventually has the finalizer and
\* UpToDate=True stored for good, and is then at rest.
C17_Converges ==
    Resolvable(stored.spec) => <>[](Converged /\ AtRest)

\* the same with no tracker entry for the key at the start
C17_ConvergesUntracked ==
    (Resolvable(stored.spec) /\ ~TrackedDeleted) => <>[](Converged /\ AtRest)

(***************************************************************************)
(* C18..C20: what the loop persists (Spec).                                *)
(***************************************************************************)
\* the times of the conditions of the type that are True
TrueTimes(conds, type) ==
    {conds[i].lastTransitionTime :
        i \in {j \in 1..Len(conds) :
                  conds[j].type = type /\ conds[j].status = "True"}}

\* the resource-level half of C18: a step that leaves UpToDate=True stored
\* leaves its lastTransitionTime as it was
C18_ResourceTimestampStable ==
    [][(stored.exists /\ stored'.exists) =>
          \A a \in TrueTimes(stored.conditions, ConditionUpToDate),
             b \in TrueTimes(stored'.conditions, ConditionUpToDate) : a = b]_vars

\* C18: a step that leaves a target's entry in the stored workloadStatus with
\* WorkloadUpToDate=True, as it was before, leaves that condition's
\* lastTransitionTime as it was; and likewise the resource-level UpToDate.
C18_TimestampsStable ==
    [][(stored.exists /\ stored'.exists) =>
          /\ \A i \in 1..Len(stored.workloadStatus),
                j \in 1..Len(stored'.workloadStatus) :
                SameWorkload(stored.workloadStatus[i],
                             stored'.workloadStatus[j]) =>
                    \A a \in TrueTimes(stored.workloadStatus[i].conditions,
                                       ConditionWorkloadUpToDate),
                       b \in TrueTimes(stored'.workloadStatus[j].conditions,
                                       ConditionWorkloadUpToDate) : a = b
          /\ \A a \in TrueTimes(stored.conditions, ConditionUpToDate),
                b \in TrueTimes(stored'.conditions, ConditionUpToDate) :
                a = b]_vars

\* C19: an invocation that returns an error has had no write accepted by the
\* store: neither an Update of the finalizers nor a status patch.
C19_CleanFailure ==
    (pc = "done" /\ result.err # Nil) =>
        \A i \in WriteCalls : calls[i].err # Nil

\* the entry is not of a workload the invocation matched
Unmatched(entry) ==
    \A j \in 1..Len(allWorkloads) : ~SameWorkload(entry, allWorkloads[j])

\* C20: no step removes or moves an entry of the stored workloadStatus while
\* the resource exists: the list after the step has, position by position,
\* the keys of the list before it, possibly followed by more; and an entry
\* of a workload the invocation did not match is left as it was, conditions
\* included.
C20_MonotoneStatuses ==
    [][(stored.exists /\ stored'.exists) =>
          LET old == stored.workloadStatus
              new == stored'.workloadStatus
          IN  /\ Len(new) >= Len(old)
              /\ \A i \in 1..Len(old) :
                    /\ SameWorkload(old[i], new[i])
                    /\ Unmatched(old[i]) => new[i] = old[i]]_vars

\* a reconcile that matched one workload was persisted over a list of two:
\* the entry of the workload that no longer matches is still there
C20_Witness ==
    /\ pc = "done"
    /\ result = [res |-> noRequeue, err |-> Nil]
    /\ \E i \in WriteCalls : calls[i].op = "StatusPatch"
    /\ Len(allWorkloads) = 1
    /\ Len(fetched.workloadStatus) = 2
    /\ Len(stored.workloadStatus) = 2
    /\ \E i \in 1..2 :
          /\ Unmatched(stored.workloadStatus[i])
          /\ stored.workloadStatus[i] = fetched.workloadStatus[i]
          /\ stored.workloadStatus[i].conditions[1].status = "True"

====
